---- MODULE Spec2Model ----
(***************************************************************************)
(* A model of USD-Support-Scripts/variant_combiner.py: the content         *)
(* addressed resource store (copy_resource), the subtree cloner            *)
(* (copy_prim), the two variant axes (setup_material_variants,             *)
(* setup_animation_variants), document loading and scratch directory        *)
(* clean-up, and the driver (main); with it the packing and unpacking of   *)
(* containers (directory_to_usdz, ExpandedUSDZ) and the pipeline command   *)
(* of usd_tool.py (USDTool.pipeline).                                      *)
(*                                                                          *)
(* Scene graphs are modelled at the level the script uses them: a stage is  *)
(* the list of its prim paths in traversal order, the relationship          *)
(* opinions authored unconditionally in its root layer, and the variant     *)
(* sets of its default prim with one edit-block per variant. An opinion of  *)
(* the root layer is stronger than the opinion of a selected variant.       *)
(* Every prim of a document is taken to be defined and active.              *)
(***************************************************************************)
EXTENDS Integers, Sequences, FiniteSets, TLC

VARIABLES
    material_variants,   \* main: ordered mapping, a sequence of [file, name]
    animation_variants,  \* main: ordered mapping, a sequence of [file, name]
    pc,                  \* position of main
    idx,                 \* position of the running axis' for-loop (1-based)
    base_path,           \* VariantCombiner.base_path
    stage,               \* VariantCombiner.stage, the combined graph
    start,               \* setup_animation_variants: local start
    end,                 \* setup_animation_variants: local end
    resources,           \* VariantCombiner.resources: digest -> stored name
    temp_dir,            \* files of VariantCombiner.temp_dir: name -> content
    cleanup_dirs,        \* VariantCombiner.cleanup_dirs
    dirs,                \* scratch directories that exist on disk
    made,                \* every scratch directory created so far (history)
    diag,                \* diagnostics printed so far (history)
    clones,              \* copy_prim calls of the running axis (history)
    copies,              \* shutil.copy calls of copy_resource (history)
    authored,            \* the edits of the last loop iteration of an axis (history)
    calls,               \* copy_resource calls and what they returned (history)
    output,              \* the container written by export
    maximize_timecode,   \* setup_animation_variants: its parameter
    exc,                 \* the exception main is left with ("" when none)
    paths,               \* directory_to_usdz: the files of the directory, as os.walk lists them
    default_layer,       \* directory_to_usdz: its parameter ("" for None)
    usdz_path,           \* directory_to_usdz: the entries of a written container, in order
    expanded,            \* ExpandedUSDZ after __enter__: its fields and the extracted files
    args,                \* usd_tool.py pipeline: args.input, args.output, args.condition, args.validate
    files,               \* usd_tool.py pipeline: the files on disk
    existed,             \* usd_tool.py pipeline: the files on disk when the run began (history)
    working_file,        \* usd_tool.py pipeline: its local working_file
    written,             \* usd_tool.py pipeline: the files the run wrote (history)
    unlinked             \* usd_tool.py pipeline: the files the run unlinked (history)

vars == <<material_variants, animation_variants, pc, idx, base_path, stage,
          start, end, resources, temp_dir, cleanup_dirs, dirs, made, diag,
          clones, copies, authored, calls, output,
          maximize_timecode, exc, paths, default_layer, usdz_path, expanded,
          args, files, existed, working_file, written, unlinked>>

\* The directory and the container of a directory_to_usdz or ExpandedUSDZ
\* call taken on its own.
Archive == <<paths, default_layer, usdz_path, expanded>>

\* The files and the locals of a pipeline run of usd_tool.py taken on its own.
Tool == <<args, files, existed, working_file, written, unlinked>>

\* A path of the working directory: how many times "conditioned_" leads its
\* name, the stem after that, the suffix.
Path(prefix, stem, suffix) == [prefix |-> prefix, stem |-> stem, suffix |-> suffix]

NoArgs == [input |-> Path(0, "", ""), output |-> Path(0, "", ""),
           condition |-> FALSE, validate |-> FALSE]

\* No pipeline is running.
ToolIdle ==
    /\ args = NoArgs
    /\ files = {}
    /\ existed = {}
    /\ working_file = Path(0, "", "")
    /\ written = {}
    /\ unlinked = {}

NoLayer == <<>>

NoFile == [sub |-> <<>>, stem |-> <<>>, ext |-> <<>>]

NotExpanded ==
    [files |-> {}, default_layer |-> NoLayer, default_layer_path |-> NoFile]

----------------------------------------------------------------------------
(* Bounds of the model. *)

\* Longest mapping given for one axis.
MaxEntries == 2

\* Most copy_resource / copy_prim calls of the stand-alone specifications.
MaxCalls == 3

----------------------------------------------------------------------------
(* Small helpers. *)

Range(s) == {s[i] : i \in 1..Len(s)}

Last(s) == s[Len(s)]

EmptyFn == <<>>

Put(f, k, v) == [x \in DOMAIN f \cup {k} |-> IF x = k THEN v ELSE f[x]]

Without(f, k) == [x \in DOMAIN f \ {k} |-> f[x]]

\* A reconciliation that keeps the value it has.
KeepFirst(a, b) == a

\* min(a, b)
Min(a, b) == IF a <= b THEN a ELSE b

Max(a, b) == IF a >= b THEN a ELSE b

----------------------------------------------------------------------------
(* Names and paths.  A name is a stem followed by the numeric suffixes      *)
(* "_<n>" appended to it: X is [b |-> "X", s |-> <<>>], X_1 is              *)
(* [b |-> "X", s |-> <<1>>], X_1_2 is [b |-> "X", s |-> <<1, 2>>].          *)

Nm(b) == [b |-> b, s |-> <<>>]

\* f"{name}_{count}"
Suffixed(name, count) == [name EXCEPT !.s = Append(@, count)]

\* A path is the sequence of the names from the root; <<>> is the pseudo-root.
Parent(p) == SubSeq(p, 1, Len(p) - 1)

IsPrefix(q, p) == Len(q) <= Len(p) /\ SubSeq(p, 1, Len(q)) = q

\* path with its prefix src replaced by dst
Rebase(p, src, dst) == dst \o SubSeq(p, Len(src) + 1, Len(p))

MatKind == "material:binding"

AnimKind == "skel:animationSource"

Kinds == {MatKind, AnimKind}

NoMeta == ""

NoSel == ""

----------------------------------------------------------------------------
(* The files on disk: a small corpus of scene documents and of the texture  *)
(* files their shaders reference.                                           *)

pR == <<Nm("R")>>

pG == <<Nm("R"), Nm("G")>>

pH == <<Nm("R"), Nm("H")>>

pK == <<Nm("R"), Nm("K")>>

pM == <<Nm("R"), Nm("M")>>

pS == <<Nm("R"), Nm("M"), Nm("S")>>

pA == <<Nm("R"), Nm("A")>>

pLooks == <<Nm("R"), Nm("Looks")>>

pM2 == <<Nm("R"), Nm("Looks"), Nm("M")>>

pS2 == <<Nm("R"), Nm("Looks"), Nm("M"), Nm("S")>>

pA2 == <<Nm("R"), Nm("Looks"), Nm("A")>>

pA1 == <<Nm("R"), Suffixed(Nm("A"), 1)>>

pGone == <<Nm("R"), Nm("Gone")>>

pAnims == <<Nm("R"), Nm("Anims")>>

pAM == <<Nm("R"), Nm("Anims"), Nm("M")>>

\* A texture file: its directory, its name (stem and extension), its bytes.
\* content 0 is the empty file.
Tex(dir, b, s, c) ==
    [dir |-> dir, name |-> [base |-> [b |-> b, s |-> s], ext |-> ".png"],
     there |-> TRUE, content |-> c]

\* A path that resolves but names no file on disk.
Absent(dir, b) ==
    [dir |-> dir, name |-> [base |-> Nm(b), ext |-> ".png"], there |-> FALSE, content |-> 0]

\* An asset value whose resolvedPath is empty.
Unresolved ==
    [dir |-> "", name |-> [base |-> Nm(""), ext |-> ""], there |-> FALSE, content |-> 0]

Textures ==
    { Tex("a", "wood", <<>>, 1), Tex("b", "wood", <<>>, 2), Tex("c", "oak", <<>>, 1),
      Tex("d", "wood", <<1>>, 3), Tex("e", "wood", <<>>, 3), Tex("f", "oak", <<>>, 0),
      Absent("g", "wood") }

Op(tg, md) == [tg |-> tg, md |-> md]

\* The documents, by file path.  dir/stem/ext spell the path; the rest is the
\* flattened content of the file: prims in traversal order, the authored
\* relationships per kind, the asset valued shader inputs, the time range.
Docs ==
    <<
      [ dir |-> "x", stem |-> "Base", ext |-> ".usd", default |-> pR,
        prims |-> <<pR, pG, pH, pM, pS, pA>>,
        rel |-> [k \in Kinds |->
                   IF k = MatKind
                   THEN (pG :> Op(<<pM>>, "weakerThanDescendants")) @@ (pH :> Op(<<>>, NoMeta))
                   ELSE (pG :> Op(<<pA>>, NoMeta)) @@ (pH :> Op(<<>>, NoMeta))],
        asset |-> (pS :> Tex("a", "wood", <<>>, 1)),
        start |-> 0, end |-> 10 ],
      [ dir |-> "x", stem |-> "Alt", ext |-> ".usdz", default |-> pR,
        prims |-> <<pR, pG, pH, pM, pS, pA>>,
        rel |-> [k \in Kinds |->
                   IF k = MatKind
                   THEN (pG :> Op(<<pM>>, "strongerThanDescendants")) @@ (pH :> Op(<<pM>>, NoMeta))
                   ELSE (pG :> Op(<<pA>>, NoMeta)) @@ (pH :> Op(<<pA>>, NoMeta))],
        asset |-> (pS :> Tex("b", "wood", <<>>, 2)),
        start |-> 5, end |-> 20 ],
      [ dir |-> "y", stem |-> "Alt", ext |-> ".usd", default |-> pR,
        prims |-> <<pR, pG, pK, pLooks, pM2, pS2, pA2, pA1>>,
        rel |-> [k \in Kinds |->
                   IF k = MatKind
                   THEN (pG :> Op(<<pM2, pGone, pM2>>, NoMeta)) @@ (pK :> Op(<<pM2>>, NoMeta))
                   ELSE (pG :> Op(<<pGone, pA2>>, NoMeta)) @@ (pK :> Op(<<pA1>>, NoMeta))],
        asset |-> (pS2 :> Tex("c", "oak", <<>>, 1)),
        start |-> -5, end |-> 8 ],
      [ dir |-> "x", stem |-> "Third", ext |-> ".usda", default |-> pR,
        prims |-> <<pR, pG, pH, pM, pS, pAnims, pAM>>,
        rel |-> [k \in Kinds |->
                   IF k = MatKind
                   THEN (pH :> Op(<<pM>>, NoMeta))
                   ELSE (pH :> Op(<<pAM>>, NoMeta))],
        asset |-> (pS :> Unresolved),
        start |-> 30, end |-> 40 ],
      [ dir |-> "x", stem |-> "Mesh", ext |-> ".obj", default |-> pR,
        prims |-> <<pR>>,
        rel |-> [k \in Kinds |-> EmptyFn],
        asset |-> EmptyFn,
        start |-> 0, end |-> 0 ]
    >>

Files == DOMAIN Docs

\* get_variant_to_file_map, list-of-files form: the variant is the file's stem.
Entry(f) == [file |-> f, name |-> Docs[f].stem]

----------------------------------------------------------------------------
(* The mutable state the handlers work on, passed as one record, and the    *)
(* result of a call: the state after it, what it returned, and the          *)
(* exception it raised ("" when it returned).                               *)

World ==
    [ stage |-> stage, resources |-> resources, temp_dir |-> temp_dir,
      cleanup_dirs |-> cleanup_dirs, dirs |-> dirs, made |-> made,
      diag |-> diag, clones |-> clones, copies |-> copies, authored |-> authored,
      calls |-> calls ]

\* The next state holds what the call left.
Becomes(w) ==
    /\ stage' = w.stage
    /\ resources' = w.resources
    /\ temp_dir' = w.temp_dir
    /\ cleanup_dirs' = w.cleanup_dirs
    /\ dirs' = w.dirs
    /\ made' = w.made
    /\ diag' = w.diag
    /\ clones' = w.clones
    /\ copies' = w.copies
    /\ authored' = w.authored
    /\ calls' = w.calls

Result(w, ret, raised) == [w |-> w, ret |-> ret, raised |-> raised]

NoRet == <<>>

----------------------------------------------------------------------------
(* VariantCombiner.copy_resource and get_file_hash. *)

\* hashlib.sha256 of the bytes: equal bytes, equal digest.
Sha256(content) == <<"sha256", content>>

NoneHash == <<"None", 0>>

\* A file of the scratch area: os.path.join(self.temp_dir, file_name)
Stored(file_name) == [dir |-> "temp_dir", name |-> file_name]

\* os.path.basename
Basename(path) == path.name

\* A loop that appends the counter to the name of the round before.
RECURSIVE FreeFileNameStacked(_, _, _, _)
FreeFileNameStacked(file_name, base, count, present) ==
    IF file_name \in present
    THEN FreeFileNameStacked([file_name EXCEPT !.base = Suffixed(@, count + 1)],
                             base, count + 1, present)
    ELSE file_name

\* while os.path.exists(os.path.join(self.temp_dir, file_name)): ...
RECURSIVE FreeFileName(_, _, _, _)
FreeFileName(file_name, base, count, present) ==
    IF file_name \in present
    THEN FreeFileName([file_name EXCEPT !.base = Suffixed(base, count + 1)],
                      base, count + 1, present)
    ELSE file_name

\* get_file_hash: None (and a message) for a path that does not exist;
\* mmap of an empty file raises ValueError.
get_file_hash(w, file_path) ==
    IF ~file_path.there
    THEN Result([w EXCEPT !.diag = @ \cup {[what |-> "Could not read", at |-> file_path.name]}],
                NoneHash, "")
    ELSE IF file_path.content = 0
    THEN Result(w, NoneHash, "ValueError")
    ELSE Result(w, Sha256(file_path.content), "")

\* The call, as the history records it.
Called(w, file_path, path, raised) ==
    [w EXCEPT !.calls = Append(@, [src |-> file_path, ret |-> path, raised |-> raised])]

NoPath == Stored([base |-> Nm(""), ext |-> ""])

\* A store that forgets to record the digest of what it copied.
RecordNothing(res, file_hash, target) == res

\* self.resources[file_hash] = target
Record(res, file_hash, target) == Put(res, file_hash, target)

copy_resource(w0, file_path) ==
    LET h == get_file_hash(w0, file_path)
        w == h.w
        file_hash == h.ret
        file_name == FreeFileName(file_path.name, file_path.name.base, 0, DOMAIN w.temp_dir)
        target == Stored(file_name)
    IN  IF h.raised # ""
        THEN Result(Called(w, file_path, NoPath, h.raised), NoPath, h.raised)
        ELSE IF file_hash \in DOMAIN w.resources
        THEN Result(Called(w, file_path, w.resources[file_hash], ""),
                    w.resources[file_hash], "")
        ELSE IF ~file_path.there
        THEN Result(Called(w, file_path, NoPath, "FileNotFoundError"),
                    NoPath, "FileNotFoundError")
        ELSE Result(Called([w EXCEPT !.temp_dir = Put(@, file_name, file_path.content),
                                     !.copies = Append(@, [src |-> file_path,
                                                           name |-> file_name]),
                                     !.resources = Record(@, file_hash, target)],
                           file_path, target, ""),
                    target, "")

----------------------------------------------------------------------------
(* Stages.                                                                  *)

\* Usd.Stage.Open of a document followed by Flatten: one layer, no variants.
DocStage(f) ==
    [ prims |-> Docs[f].prims, rel |-> Docs[f].rel, asset |-> Docs[f].asset,
      vsets |-> EmptyFn, default |-> Docs[f].default,
      start |-> Docs[f].start, end |-> Docs[f].end ]

NoStage ==
    [ prims |-> <<>>, rel |-> [k \in Kinds |-> EmptyFn], asset |-> EmptyFn,
      vsets |-> EmptyFn, default |-> <<>>, start |-> 0, end |-> 0 ]

\* stage.GetPrimAtPath(p) is a valid prim; the pseudo-root always is.
HasPrim(st, p) == p = <<>> \/ p \in Range(st.prims)

\* prim.GetChildrenNames()
GetChildrenNames(st, q) ==
    {Last(p) : p \in {x \in Range(st.prims) : Len(x) = Len(q) + 1 /\ Parent(x) = q}}

\* The variant sets whose selected variant has an opinion on relationship k of p.
Selecting(st, k, p) ==
    {s \in DOMAIN st.vsets :
        /\ st.vsets[s].sel \in DOMAIN st.vsets[s].edits
        /\ p \in DOMAIN st.vsets[s].edits[st.vsets[s].sel][k]}

VariantOpinion(st, k, p) ==
    LET s == CHOOSE x \in Selecting(st, k, p) : TRUE
    IN  st.vsets[s].edits[st.vsets[s].sel][k][p]

\* bool(prim.GetRelationship(k)): the relationship has a spec in the root
\* layer or in a selected variant.
RelValid(st, k, p) == p \in DOMAIN st.rel[k] \/ Selecting(st, k, p) # {}

\* rel.GetTargets(): the strongest opinion, root layer over selected variant.
GetTargets(st, k, p) ==
    IF p \in DOMAIN st.rel[k] THEN st.rel[k][p].tg
    ELSE IF Selecting(st, k, p) # {} THEN VariantOpinion(st, k, p).tg
    ELSE <<>>

\* rel.GetMetadata("bindMaterialAs"): the strongest authored value.
GetMetadata(st, k, p) ==
    IF p \in DOMAIN st.rel[k] /\ st.rel[k][p].md # NoMeta THEN st.rel[k][p].md
    ELSE IF Selecting(st, k, p) # {} THEN VariantOpinion(st, k, p).md
    ELSE NoMeta

\* A ClearTargets that leaves the root layer as it is.
ClearNothing(st, k, p) == st

\* rel.ClearTargets(True) outside an edit context: the spec leaves the root layer.
ClearTargets(st, k, p) == [st EXCEPT !.rel[k] = Without(@, p)]

\* GetVariantSets().AddVariantSet(name): the existing set, or a new empty one.
AddVariantSet(st, name) ==
    IF name \in DOMAIN st.vsets THEN st
    ELSE [st EXCEPT !.vsets = Put(@, name, [variants |-> <<>>, sel |-> NoSel, edits |-> EmptyFn])]

\* vset.AddVariant(v): a name already in the set is not added again.
AddVariant(st, name, v) ==
    IF v \in Range(st.vsets[name].variants) THEN st
    ELSE [st EXCEPT !.vsets[name].variants = Append(@, v),
                    !.vsets[name].edits = Put(@, v, [k \in Kinds |-> EmptyFn])]

SetVariantSelection(st, name, v) == [st EXCEPT !.vsets[name].sel = v]

\* An edit authored outside the edit context, in the root layer.
AuthorUnconditionally(st, name, k, p, tg, md) == [st EXCEPT !.rel[k] = Put(@, p, Op(tg, md))]

\* with vset.GetVariantEditContext(): rel = prim.CreateRelationship(k);
\* rel.SetTargets(tg); if md: rel.SetMetadata("bindMaterialAs", md)
\* The edits go to the block of the variant that is selected.
AuthorInVariant(st, name, k, p, tg, md) ==
    LET v == st.vsets[name].sel
        block == st.vsets[name].edits[v][k]
        old == IF p \in DOMAIN block THEN block[p].md ELSE NoMeta
    IN  [st EXCEPT !.vsets[name].edits[v][k] =
                       Put(@, p, Op(tg, IF md # NoMeta THEN md ELSE old))]

----------------------------------------------------------------------------
(* VariantCombiner.copy_prim. *)

\* An "if" in the place of the "while": one attempt at a free name.
FreeNameOnce(new_name, count, names) ==
    IF new_name \in names THEN Suffixed(new_name, count + 1) ELSE new_name

\* while new_name in names: count += 1; new_name = f"{new_name}_{count}"
RECURSIVE FreeName(_, _, _)
FreeName(new_name, count, names) ==
    IF new_name \in names
    THEN FreeName(Suffixed(new_name, count + 1), count + 1, names)
    ELSE new_name

\* The prims of st at or below p, in traversal order.
Subtree(st, p) == SelectSeq(st.prims, LAMBDA x : IsPrefix(p, x))

\* A target path of a copied spec: paths into the copied subtree follow it.
Retarget(t, src, dst) == IF IsPrefix(src, t) THEN Rebase(t, src, dst) ELSE t

RetargetAll(tg, src, dst) == [i \in 1..Len(tg) |-> Retarget(tg[i], src, dst)]

\* Sdf.CopySpec(srcLayer, path, dstLayer, new_path): the spec at new_path
\* becomes a copy of the source subtree (replacing what was there), as the
\* last child of its parent.
CopySpec(src, path, st, new_path) ==
    LET kept == SelectSeq(st.prims, LAMBDA x : ~IsPrefix(new_path, x))
        sub == Subtree(src, path)
        new == [i \in 1..Len(sub) |-> Rebase(sub[i], path, new_path)]
        parent == Parent(new_path)
        under == {i \in 1..Len(kept) : IsPrefix(parent, kept[i])}
        at == IF under = {} THEN Len(kept) ELSE CHOOSE i \in under : \A j \in under : j <= i
        gone(f) == [x \in {y \in DOMAIN f : ~IsPrefix(new_path, y)} |-> f[x]]
        moved(f, fix(_)) ==
            [x \in {Rebase(y, path, new_path) : y \in {z \in DOMAIN f : IsPrefix(path, z)}} |->
                fix(f[Rebase(x, new_path, path)])]
    IN  [st EXCEPT
            !.prims = SubSeq(kept, 1, at) \o new \o SubSeq(kept, at + 1, Len(kept)),
            !.rel = [k \in Kinds |->
                        moved(src.rel[k],
                              LAMBDA o : Op(RetargetAll(o.tg, path, new_path), o.md))
                        @@ gone(st.rel[k])],
            !.asset = moved(src.asset, LAMBDA a : a) @@ gone(st.asset)]

\* A cloner with a map of its own, kept across documents: a path cloned
\* before, from whichever document, resolves to the clone made then.
copy_prim_reusing(w, src, f, path) ==
    LET prior == {c \in 1..Len(w.clones) : w.clones[c].src = path}
        name == Last(path)
        parent == IF HasPrim(w.stage, Parent(path)) THEN Parent(path) ELSE w.stage.default
        names == GetChildrenNames(w.stage, parent)
        new_path == Append(parent, FreeName(name, 0, names))
    IN  IF prior # {}
        THEN Result(w, w.clones[CHOOSE c \in prior : TRUE].dst, "")
        ELSE Result([w EXCEPT !.stage = CopySpec(src, path, w.stage, new_path),
                              !.clones = Append(@, [file |-> f, src |-> path,
                                                    dst |-> new_path, names |-> names])],
                    new_path, "")

\* copy_prim(prim), prim a prim of the stage src opened from file f.
\* Returns new_path.
copy_prim(w, src, f, path) ==
    LET name == Last(path)
        parent == IF HasPrim(w.stage, Parent(path)) THEN Parent(path) ELSE w.stage.default
        names == GetChildrenNames(w.stage, parent)
        new_name == FreeName(name, 0, names)
        new_path == Append(parent, new_name)
    IN  Result([w EXCEPT !.stage = CopySpec(src, path, w.stage, new_path),
                         !.clones = Append(@, [file |-> f, src |-> path, dst |-> new_path,
                                               names |-> names])],
               new_path, "")

----------------------------------------------------------------------------
(* Loading a document: ExpandedUSDZ.__enter__, VariantCombiner.load,        *)
(* bake_resources, cleanup.                                                 *)

allowed_exts == {".usd", ".usda", ".usdc", ".usdz"}

\* What the file system holds when a document is opened: a sound file, a
\* container that zipfile cannot extract, a file Usd.Stage.Open fails on,
\* a document without a default prim, a document whose resource files
\* resolve but are not on disk when they are hashed.
Health == {"ok", "bad_zip", "unopenable", "no_default", "no_resource"}

\* The asset values of a stage whose resolved files are not on disk.
Missing(st) ==
    [st EXCEPT !.asset = [p \in DOMAIN @ |->
                            IF @[p].dir = "" THEN @[p] ELSE [@[p] EXCEPT !.there = FALSE]]]

\* tempfile.mkdtemp(): a directory that did not exist before.
mkdtemp(w) == Cardinality(w.made) + 1

\* A bake that interns the file and leaves the reference as it was.
Unbaked(value, path) == value

\* The asset value after shader_input.Set(os.path.basename(path)).
Baked(value, path) == [value EXCEPT !.dir = ".", !.name = Basename(path)]

RECURSIVE bake_from(_, _, _)
bake_from(w, st, i) ==
    IF i > Len(st.prims) THEN Result(w, st, "")
    ELSE LET p == st.prims[i] IN
         IF p \notin DOMAIN st.asset THEN bake_from(w, st, i + 1)
         ELSE IF st.asset[p].dir = ""
         THEN bake_from([w EXCEPT !.diag = @ \cup {[what |-> "Could not find", at |-> p]}],
                        st, i + 1)
         ELSE LET r == copy_resource(w, st.asset[p]) IN
              IF r.raised # "" THEN Result(r.w, st, r.raised)
              ELSE bake_from(r.w, [st EXCEPT !.asset[p] = Baked(@, r.ret)], i + 1)

bake_resources(w, st) == bake_from(w, st, 1)

\* ExpandedUSDZ(file_path, cleanup=False).__enter__: the directory is made,
\* then the container is extracted into it.
ExpandedUSDZ_enter(w, health) ==
    LET path == mkdtemp(w)
        w1 == [w EXCEPT !.dirs = @ \cup {path}, !.made = @ \cup {path}]
    IN  Result(w1, path, IF health = "bad_zip" THEN "BadZipFile" ELSE "")

\* A load that opens whatever it is given and tests nothing.
load_unchecked(w, f, health) == bake_resources(w, DocStage(f))

\* load(file_path): returns the flattened stage.
load(w, f, health) ==
    IF Docs[f].ext \notin allowed_exts THEN Result(w, NoStage, "ValueError")
    ELSE LET usdz == IF Docs[f].ext = ".usdz" THEN ExpandedUSDZ_enter(w, health)
                     ELSE Result(w, 0, "")
             w2 == IF Docs[f].ext = ".usdz" /\ usdz.raised = ""
                   THEN [usdz.w EXCEPT !.cleanup_dirs = Append(@, usdz.ret)]
                   ELSE usdz.w
         IN  IF usdz.raised # "" THEN Result(w2, NoStage, usdz.raised)
             ELSE IF health = "unopenable" THEN Result(w2, NoStage, "RuntimeError")
             ELSE bake_resources(w2, IF health = "no_resource" THEN Missing(DocStage(f))
                                     ELSE DocStage(f))

\* cleanup(): shutil.rmtree of every path of cleanup_dirs; the first of them
\* is temp_dir.
cleanup(w) ==
    [w EXCEPT !.dirs = @ \ Range(w.cleanup_dirs),
              !.temp_dir = IF w.cleanup_dirs # <<>> THEN EmptyFn ELSE @]

----------------------------------------------------------------------------
(* The loops of setup_material_variants and setup_animation_variants.       *)

material_variantset_name == "Material"

animation_variantset_name == "Animation"

Edit(p, tg, md) == [node |-> p, tg |-> tg, md |-> md]

\* A loop that takes every target for a prim of the variant document.
target_prim_unchecked(var_stage, target) == TRUE

\* target_prim = var_stage.GetPrimAtPath(target); bool(target_prim)
target_prim_valid(var_stage, target) == HasPrim(var_stage, target)

\* A loop that takes every prim of the variant document to be in the graph.
destination_prim_unchecked(st, prim) == TRUE

\* A loop that takes a prim of the variant document to be in the graph only
\* where the graph's prim has a relationship already.
destination_prim_with_rel(st, prim) ==
    HasPrim(st, prim) /\ \E k \in Kinds : RelValid(st, k, prim) /\ GetTargets(st, k, prim) # <<>>

\* destination_prim = self.stage.GetPrimAtPath(prim.GetPath()); bool(...)
destination_prim_valid(st, prim) == HasPrim(st, prim)

\* A loop that drops the targets it does not find and resolves none.
resolve_targets_dropping(w, var_stage, f, map, targets, i) ==
    Result(w, SelectSeq(targets, LAMBDA t : HasPrim(var_stage, t)), "")

\* for i, target in enumerate(targets): ...   (the same loop in both axes)
\* map is material_map / anim_map: the loop reads it and never writes it.
RECURSIVE resolve_targets(_, _, _, _, _, _)
resolve_targets(w, var_stage, f, map, targets, i) ==
    IF i > Len(targets) THEN Result(w, targets, "")
    ELSE LET target == targets[i] IN
         IF target \in DOMAIN map
         THEN resolve_targets(w, var_stage, f, map, [targets EXCEPT ![i] = map[target]], i + 1)
         ELSE IF ~target_prim_valid(var_stage, target)
         THEN resolve_targets(
                  [w EXCEPT !.diag = @ \cup {[what |-> "missing target", at |-> target]}],
                  var_stage, f, map, targets, i + 1)
         ELSE LET c == copy_prim(w, var_stage, f, target) IN
              resolve_targets(c.w, var_stage, f, map, [targets EXCEPT ![i] = c.ret], i + 1)

\* for prim in var_stage.TraverseAll(): ...   (a distinct variant document;
\* the same loop in both axes, bindMaterialAs in the material axis only)
RECURSIVE variant_loop(_, _, _, _, _, _, _)
variant_loop(w, var_stage, f, k, vset, variant_name, i) ==
    IF i > Len(var_stage.prims) THEN w
    ELSE LET prim == var_stage.prims[i] IN
         IF ~RelValid(var_stage, k, prim)
         THEN variant_loop(w, var_stage, f, k, vset, variant_name, i + 1)
         ELSE IF ~destination_prim_valid(w.stage, prim)
         THEN variant_loop(
                  [w EXCEPT !.diag = @ \cup {[what |-> "hierarchy mismatch", at |-> prim]}],
                  var_stage, f, k, vset, variant_name, i + 1)
         ELSE LET md == IF k = MatKind THEN GetMetadata(var_stage, k, prim) ELSE NoMeta
                  r == resolve_targets(w, var_stage, f, EmptyFn,
                                       GetTargets(var_stage, k, prim), 1)
                  sel == SetVariantSelection(r.w.stage, vset, variant_name)
                  st == AuthorInVariant(sel, vset, k, prim, r.ret, md)
              IN  variant_loop([r.w EXCEPT !.stage = st,
                                           !.authored = Append(@, Edit(prim, r.ret, md))],
                               var_stage, f, k, vset, variant_name, i + 1)

\* setup_material_variants, file_path == self.base_path:
\* for prim in self.stage.TraverseAll(): ...
RECURSIVE base_material_loop(_, _, _, _)
base_material_loop(w, vset, variant_name, i) ==
    IF i > Len(w.stage.prims) THEN w
    ELSE LET prim == w.stage.prims[i] IN
         IF ~RelValid(w.stage, MatKind, prim)
         THEN base_material_loop(w, vset, variant_name, i + 1)
         ELSE LET val == GetTargets(w.stage, MatKind, prim)
                  bindMaterialAs == GetMetadata(w.stage, MatKind, prim)
                  cleared == ClearTargets(w.stage, MatKind, prim)
                  sel == SetVariantSelection(cleared, vset, variant_name)
                  st == AuthorInVariant(sel, vset, MatKind, prim, val, bindMaterialAs)
              IN  base_material_loop(
                      [w EXCEPT !.stage = st,
                                !.authored = Append(@, Edit(prim, val, bindMaterialAs))],
                      vset, variant_name, i + 1)

\* setup_animation_variants, file_path == self.base_path:
\* for prim in self.stage.TraverseAll(): ...
RECURSIVE base_animation_loop(_, _, _, _)
base_animation_loop(w, vset, variant_name, i) ==
    IF i > Len(w.stage.prims) THEN w
    ELSE LET prim == w.stage.prims[i] IN
         IF ~RelValid(w.stage, AnimKind, prim)
         THEN base_animation_loop(w, vset, variant_name, i + 1)
         ELSE LET val == GetTargets(w.stage, AnimKind, prim) IN
              IF val = <<>>
              THEN base_animation_loop(w, vset, variant_name, i + 1)
              ELSE LET cleared == ClearTargets(w.stage, AnimKind, prim)
                       sel == SetVariantSelection(cleared, vset, variant_name)
                       st == AuthorInVariant(sel, vset, AnimKind, prim, val, NoMeta)
                   IN  base_animation_loop(
                           [w EXCEPT !.stage = st,
                                     !.authored = Append(@, Edit(prim, val, NoMeta))],
                           vset, variant_name, i + 1)

----------------------------------------------------------------------------
(* main and the handlers it calls, one action per step.                     *)

\* The ordered mappings get_variant_to_file_map returns: distinct files, in
\* any order; the extension of the first file is an allowed one (a list that
\* starts with any other file is refused before main has a mapping).
Mappings ==
    UNION { { [i \in 1..n |-> Entry(g[i])] :
                g \in {h \in [1..n -> Files] :
                          /\ \A i, j \in 1..n : i # j => h[i] # h[j]
                          /\ n > 0 => Docs[h[1]].ext \in allowed_exts} } :
            n \in 0..MaxEntries }

Keys(m) == {m[i].file : i \in 1..Len(m)}

Untouched == <<stage, resources, temp_dir, cleanup_dirs, dirs, made, diag, clones,
               copies, authored, calls>>

Inputs == <<material_variants, animation_variants>>

Init ==
    /\ material_variants \in Mappings
    /\ animation_variants \in Mappings
    /\ pc = "main"
    /\ idx = 0
    /\ base_path = 0
    /\ stage = NoStage
    /\ start = 0
    /\ end = 0
    /\ resources = EmptyFn
    /\ temp_dir = EmptyFn
    /\ cleanup_dirs = <<>>
    /\ dirs = {}
    /\ made = {}
    /\ diag = {}
    /\ clones = <<>>
    /\ copies = <<>>
    /\ authored = <<>>
    /\ calls = <<>>
    /\ output = <<>>
    /\ maximize_timecode = FALSE
    /\ exc = ""
    /\ paths = <<>>
    /\ default_layer = NoLayer
    /\ usdz_path = <<>>
    /\ expanded = NotExpanded
    /\ ToolIdle

\* A driver that takes any pair of mappings.
no_variants_unchecked(material, animation) == FALSE

\* not (material_variants or animation_variants)
no_variants(material, animation) == material = <<>> /\ animation = <<>>

\* if not (material_variants or animation_variants): ... sys.exit(1)
Reject ==
    /\ pc = "main"
    /\ no_variants(material_variants, animation_variants)
    /\ pc' = "exit_1"
    /\ UNCHANGED <<Inputs, Archive, Tool, Untouched, idx, base_path, start, end, output,
                   maximize_timecode, exc>>

\* combiner = VariantCombiner(...): __init__ makes temp_dir.
Construct ==
    /\ pc = "main"
    /\ ~no_variants(material_variants, animation_variants)
    /\ pc' = "constructed"
    /\ dirs' = dirs \cup {mkdtemp(World)}
    /\ made' = made \cup {mkdtemp(World)}
    /\ cleanup_dirs' = <<mkdtemp(World)>>
    /\ resources' = EmptyFn
    /\ UNCHANGED <<Inputs, Archive, Tool, stage, temp_dir, diag, clones, copies, authored, calls, idx,
                   base_path, start, end, output, maximize_timecode, exc>>

\* base_file = random.choice(...); combiner.load_base(base_file)
LoadBase ==
    /\ pc = "constructed"
    /\ \E base_file \in Keys(material_variants) \cup Keys(animation_variants),
          health \in Health :
          LET r == load(World, base_file, health) IN
          /\ base_path' = base_file
          /\ IF r.raised # ""
             THEN Becomes(r.w) /\ pc' = "raised" /\ exc' = r.raised
             ELSE IF health = "no_default"
             THEN /\ Becomes([r.w EXCEPT !.stage = r.ret])
                  /\ pc' = "raised" /\ exc' = "RuntimeError"
             ELSE Becomes([r.w EXCEPT !.stage = r.ret]) /\ pc' = "material" /\ exc' = exc
    /\ UNCHANGED <<Inputs, Archive, Tool, idx, start, end, output, maximize_timecode>>

\* An axis that creates its VariantSet before it tests its mapping.
MaterialSetThenSkip ==
    /\ pc = "material"
    /\ material_variants = <<>>
    /\ pc' = "animation"
    /\ Becomes([World EXCEPT !.stage = AddVariantSet(@, material_variantset_name)])
    /\ UNCHANGED <<Inputs, Archive, Tool, idx, base_path, start, end, output, maximize_timecode, exc>>

\* setup_material_variants: if not material_variants: return
MaterialSkip ==
    /\ pc = "material"
    /\ material_variants = <<>>
    /\ pc' = "animation"
    /\ UNCHANGED <<Inputs, Archive, Tool, Untouched, idx, base_path, start, end, output,
                   maximize_timecode, exc>>

\* vset = self.default_prim.GetVariantSets().AddVariantSet(...)
MaterialBegin ==
    /\ pc = "material"
    /\ material_variants # <<>>
    /\ pc' = "material_loop"
    /\ idx' = 1
    /\ Becomes([World EXCEPT !.stage = AddVariantSet(@, material_variantset_name),
                             !.clones = <<>>, !.authored = <<>>])
    /\ UNCHANGED <<Inputs, Archive, Tool, base_path, start, end, output, maximize_timecode, exc>>

\* One iteration of: for file_path, variant_name in material_variants.items()
MaterialEntry ==
    /\ pc = "material_loop"
    /\ idx <= Len(material_variants)
    /\ LET file_path == material_variants[idx].file
           variant_name == material_variants[idx].name
           w == [World EXCEPT !.stage = AddVariant(@, material_variantset_name, variant_name),
                              !.authored = <<>>]
       IN  IF file_path = base_path
           THEN /\ Becomes(base_material_loop(w, material_variantset_name, variant_name, 1))
                /\ pc' = pc
                /\ idx' = idx + 1
                /\ exc' = exc
           ELSE \E health \in Health :
                  LET r == load(w, file_path, health) IN
                  IF r.raised # ""
                  THEN Becomes(r.w) /\ pc' = "raised" /\ idx' = idx /\ exc' = r.raised
                  ELSE /\ Becomes(variant_loop(r.w, r.ret, file_path, MatKind,
                                               material_variantset_name, variant_name, 1))
                       /\ pc' = pc
                       /\ idx' = idx + 1
                       /\ exc' = exc
    /\ UNCHANGED <<Inputs, Archive, Tool, base_path, start, end, output, maximize_timecode>>

\* The variant of the last entry, where the first is meant.
last_variant(variants) == variants[Len(variants)].name

\* list(variants.values())[0]
first_variant(variants) == variants[1].name

\* vset.SetVariantSelection(list(material_variants.values())[0])
MaterialEnd ==
    /\ pc = "material_loop"
    /\ idx > Len(material_variants)
    /\ pc' = "animation"
    /\ idx' = 0
    /\ Becomes([World EXCEPT !.stage = SetVariantSelection(@, material_variantset_name,
                                                           first_variant(material_variants))])
    /\ UNCHANGED <<Inputs, Archive, Tool, base_path, start, end, output, maximize_timecode, exc>>

\* setup_animation_variants: if not animation_variants: return
AnimationSkip ==
    /\ pc = "animation"
    /\ animation_variants = <<>>
    /\ pc' = "export"
    /\ UNCHANGED <<Inputs, Archive, Tool, Untouched, idx, base_path, start, end, output,
                   maximize_timecode, exc>>

\* vset = ...AddVariantSet(...); start = ...; end = ...
AnimationBegin ==
    /\ pc = "animation"
    /\ animation_variants # <<>>
    /\ pc' = "animation_loop"
    /\ idx' = 1
    /\ maximize_timecode' \in BOOLEAN
    /\ start' = stage.start
    /\ end' = stage.end
    /\ Becomes([World EXCEPT !.stage = AddVariantSet(@, animation_variantset_name),
                             !.clones = <<>>, !.authored = <<>>])
    /\ UNCHANGED <<Inputs, Archive, Tool, base_path, output, exc>>

\* One iteration of: for file_path, variant_name in animation_variants.items()
AnimationEntry ==
    /\ pc = "animation_loop"
    /\ idx <= Len(animation_variants)
    /\ LET file_path == animation_variants[idx].file
           variant_name == animation_variants[idx].name
           w == [World EXCEPT !.stage = AddVariant(@, animation_variantset_name, variant_name),
                              !.authored = <<>>]
       IN  IF file_path = base_path
           THEN /\ Becomes(base_animation_loop(w, animation_variantset_name, variant_name, 1))
                /\ pc' = pc
                /\ idx' = idx + 1
                /\ UNCHANGED <<start, end, exc>>
           ELSE \E health \in Health :
                  LET r == load(w, file_path, health) IN
                  IF r.raised # ""
                  THEN /\ Becomes(r.w) /\ pc' = "raised" /\ idx' = idx
                       /\ exc' = r.raised /\ UNCHANGED <<start, end>>
                  ELSE /\ start' = IF maximize_timecode THEN Min(start, r.ret.start)
                                   ELSE Max(start, r.ret.start)
                       /\ end' = IF maximize_timecode THEN Max(end, r.ret.end)
                                 ELSE Min(end, r.ret.end)
                       /\ Becomes(variant_loop(r.w, r.ret, file_path, AnimKind,
                                               animation_variantset_name, variant_name, 1))
                       /\ pc' = pc
                       /\ idx' = idx + 1
                       /\ exc' = exc
    /\ UNCHANGED <<Inputs, Archive, Tool, base_path, output, maximize_timecode>>

\* An end of the animation axis that also selects in the material set.
AnimationEndSelectsMaterial ==
    /\ pc = "animation_loop"
    /\ idx > Len(animation_variants)
    /\ pc' = "export"
    /\ idx' = 0
    /\ Becomes([World EXCEPT !.stage =
                   [SetVariantSelection(
                        IF material_variants = <<>> THEN @
                        ELSE SetVariantSelection(@, material_variantset_name,
                                                 last_variant(material_variants)),
                        animation_variantset_name, first_variant(animation_variants))
                       EXCEPT !.start = start, !.end = end]])
    /\ UNCHANGED <<Inputs, Archive, Tool, base_path, start, end, output, maximize_timecode, exc>>

\* vset.SetVariantSelection(...); SetStartTimeCode(start); SetEndTimeCode(end)
AnimationEnd ==
    /\ pc = "animation_loop"
    /\ idx > Len(animation_variants)
    /\ pc' = "export"
    /\ idx' = 0
    /\ Becomes([World EXCEPT !.stage =
                   [SetVariantSelection(@, animation_variantset_name,
                                        first_variant(animation_variants))
                       EXCEPT !.start = start, !.end = end]])
    /\ UNCHANGED <<Inputs, Archive, Tool, base_path, start, end, output, maximize_timecode, exc>>

\* combiner.export(args.output): the root layer goes to temp_dir as
\* <output stem>.usdc, and temp_dir is packed into the output container.
temp_file_name == [base |-> Nm("out"), ext |-> ".usdc"]

Export ==
    /\ pc = "export"
    /\ pc' = "returned"
    /\ temp_dir' = Put(temp_dir, temp_file_name, 1)
    /\ output' = <<[default |-> temp_file_name, files |-> DOMAIN temp_dir']>>
    /\ UNCHANGED <<Inputs, Archive, Tool, stage, resources, cleanup_dirs, dirs, made, diag, clones,
                   copies, authored, calls, idx, base_path, start, end,
                   maximize_timecode, exc>>

\* __del__ as main is left, by its return or by an exception: cleanup().
Del ==
    /\ pc \in {"returned", "raised"}
    /\ pc' = IF pc = "returned" THEN "exit_0" ELSE "exit_error"
    /\ Becomes(cleanup(World))
    /\ UNCHANGED <<Inputs, Archive, Tool, idx, base_path, start, end, output,
                   maximize_timecode, exc>>

Next ==
    \/ Reject
    \/ Construct
    \/ LoadBase
    \/ MaterialSkip
    \/ MaterialBegin
    \/ MaterialEntry
    \/ MaterialEnd
    \/ AnimationSkip
    \/ AnimationBegin
    \/ AnimationEntry
    \/ AnimationEnd
    \/ Export
    \/ Del

Spec == Init /\ [][Next]_vars

----------------------------------------------------------------------------
(* The resource store on its own: a VariantCombiner interning any files in  *)
(* any order.                                                               *)

InitStore ==
    /\ material_variants = <<>>
    /\ animation_variants = <<>>
    /\ pc = "store"
    /\ idx = 0
    /\ base_path = 0
    /\ stage = NoStage
    /\ start = 0
    /\ end = 0
    /\ resources = EmptyFn
    /\ temp_dir = EmptyFn
    /\ cleanup_dirs = <<1>>
    /\ dirs = {1}
    /\ made = {1}
    /\ diag = {}
    /\ clones = <<>>
    /\ copies = <<>>
    /\ authored = <<>>
    /\ calls = <<>>
    /\ output = <<>>
    /\ maximize_timecode = FALSE
    /\ exc = ""
    /\ paths = <<>>
    /\ default_layer = NoLayer
    /\ usdz_path = <<>>
    /\ expanded = NotExpanded
    /\ ToolIdle

CopyResourceCall ==
    /\ pc = "store"
    /\ Len(calls) < MaxCalls
    /\ \E file_path \in Textures : Becomes(copy_resource(World, file_path).w)
    /\ UNCHANGED <<Inputs, Archive, Tool, pc, idx, base_path, start, end, output, maximize_timecode, exc>>

NextStore == CopyResourceCall

SpecStore == InitStore /\ [][NextStore]_vars

----------------------------------------------------------------------------
(* The cloner on its own: copy_prim of relationship targets of any          *)
(* documents, in any order, into a combined graph opened from any document. *)

\* The prims of document f that one of its relationships targets.
Targets(f) ==
    {p \in Range(Docs[f].prims) :
        \E k \in Kinds : \E q \in DOMAIN Docs[f].rel[k] : p \in Range(Docs[f].rel[k][q].tg)}

InitClone ==
    /\ material_variants = <<>>
    /\ animation_variants = <<>>
    /\ pc = "clone"
    /\ idx = 0
    /\ base_path \in Files
    /\ stage = DocStage(base_path)
    /\ start = 0
    /\ end = 0
    /\ resources = EmptyFn
    /\ temp_dir = EmptyFn
    /\ cleanup_dirs = <<1>>
    /\ dirs = {1}
    /\ made = {1}
    /\ diag = {}
    /\ clones = <<>>
    /\ copies = <<>>
    /\ authored = <<>>
    /\ calls = <<>>
    /\ output = <<>>
    /\ maximize_timecode = FALSE
    /\ exc = ""
    /\ paths = <<>>
    /\ default_layer = NoLayer
    /\ usdz_path = <<>>
    /\ expanded = NotExpanded
    /\ ToolIdle

CopyPrimCall ==
    /\ pc = "clone"
    /\ Len(clones) < MaxCalls
    /\ \E f \in Files : \E prim \in Targets(f) :
          Becomes(copy_prim(World, DocStage(f), f, prim).w)
    /\ UNCHANGED <<Inputs, Archive, Tool, pc, idx, base_path, start, end, output, maximize_timecode, exc>>

NextClone == CopyPrimCall

SpecClone == InitClone /\ [][NextClone]_vars

----------------------------------------------------------------------------
(* directory_to_usdz and ExpandedUSDZ.__enter__ on their own: any directory *)
(* is packed, and the container written is unpacked.  A string is the       *)
(* sequence of its pieces, so that "x in y" and startswith are computed.    *)

MaxFiles == 3

\* A file below the directory: its sub-directory (with the separator), the
\* stem of its name, its extension.
File(sub, stem, ext) == [sub |-> sub, stem |-> stem, ext |-> ext]

\* a.usd, a.usdc, t.png, n.usdz and sub/b.usd
Candidates ==
    { File(<<>>, <<"a">>, <<".usd">>), File(<<>>, <<"a">>, <<".usd", "c">>),
      File(<<>>, <<"t">>, <<".png">>), File(<<>>, <<"n">>, <<".usd", "z">>),
      File(<<"sub", "/">>, <<"b">>, <<".usd">>) }

directory == <<"tmp", "/">>

\* os.path.basename
NameOf(f) == f.stem \o f.ext

\* os.path.relpath(file_path, directory)
RelPath(f) == f.sub \o f.stem \o f.ext

\* file_path = os.path.join(root, name)
FullPath(f) == directory \o RelPath(f)

\* t in s, for strings
Contains(s, t) == \E i \in 0..(Len(s) - Len(t)) : SubSeq(s, i + 1, i + Len(t)) = t

\* The lists os.walk can give: the files of the directory itself in any
\* order, before the files of its sub-directory.
Walks ==
    UNION { { g \in [1..n -> Candidates] :
                /\ \A i, j \in 1..n : i # j => g[i] # g[j]
                /\ \A i, j \in 1..n : i < j => ~(g[i].sub # <<>> /\ g[j].sub = <<>>) } :
            n \in 0..MaxFiles }

\* directory_to_usdz: the entries of the container it writes, in order;
\* nothing is written for an empty directory.
directory_to_usdz(ps, layer) ==
    LET default_layer_str == IF layer = NoLayer THEN <<".usd">> ELSE layer
        key(x) == Contains(FullPath(x), default_layer_str)
        other(x) == ~key(x)
    IN  SelectSeq(ps, key) \o SelectSeq(ps, other)

\* for name in zh.namelist(): ... if ext.startswith(".usd"): ... break
RECURSIVE first_usd(_, _)
first_usd(namelist, i) ==
    IF i > Len(namelist) THEN NoFile
    ELSE IF namelist[i].ext # <<>> /\ namelist[i].ext[1] = ".usd" THEN namelist[i]
    ELSE first_usd(namelist, i + 1)

\* ExpandedUSDZ.__enter__: extractall, then default_layer and
\* default_layer_path from the first ".usd*" entry.
ExpandedUSDZ_fields(namelist) ==
    LET name == first_usd(namelist, 1) IN
    [ files |-> Range(namelist),
      default_layer |-> IF name = NoFile THEN NoLayer ELSE NameOf(name),
      default_layer_path |-> IF name = NoFile THEN NoFile
                             ELSE File(<<>>, name.stem, name.ext) ]

InitUsdz ==
    /\ material_variants = <<>>
    /\ animation_variants = <<>>
    /\ pc = "directory"
    /\ idx = 0
    /\ base_path = 0
    /\ stage = NoStage
    /\ start = 0
    /\ end = 0
    /\ resources = EmptyFn
    /\ temp_dir = EmptyFn
    /\ cleanup_dirs = <<>>
    /\ dirs = {}
    /\ made = {}
    /\ diag = {}
    /\ clones = <<>>
    /\ copies = <<>>
    /\ authored = <<>>
    /\ calls = <<>>
    /\ output = <<>>
    /\ maximize_timecode = FALSE
    /\ exc = ""
    /\ paths \in Walks
    /\ default_layer \in {NoLayer} \cup {NameOf(paths[i]) : i \in 1..Len(paths)}
    /\ usdz_path = <<>>
    /\ expanded = NotExpanded
    /\ ToolIdle

Engine == <<Inputs, Tool, Untouched, idx, base_path, start, end, output, maximize_timecode, exc>>

\* directory_to_usdz(directory, usdz_path, default_layer)
DirectoryToUsdz ==
    /\ pc = "directory"
    /\ pc' = "container"
    /\ usdz_path' = IF paths = <<>> THEN usdz_path ELSE directory_to_usdz(paths, default_layer)
    /\ UNCHANGED <<Engine, paths, default_layer, expanded>>

\* with ExpandedUSDZ(usdz_path) as expanded: ...
Expand ==
    /\ pc = "container"
    /\ usdz_path # <<>>
    /\ pc' = "expanded"
    /\ expanded' = ExpandedUSDZ_fields(usdz_path)
    /\ UNCHANGED <<Engine, paths, default_layer, usdz_path>>

NextUsdz == DirectoryToUsdz \/ Expand

SpecUsdz == InitUsdz /\ [][NextUsdz]_vars

----------------------------------------------------------------------------
(* usd_tool.py, USDTool.pipeline on its own: convert, condition, validate,  *)
(* copy to the output, clean up.  The files are those of one directory.     *)

usd_suffixes == {".usd", ".usda", ".usdc", ".usdz"}

\* input_path.with_suffix(suffix)
with_suffix(path, suffix) == [path EXCEPT !.suffix = suffix]

\* working_file.parent / f"conditioned_{working_file.name}"
conditioned_path(path) == [path EXCEPT !.prefix = @ + 1]

InputPaths == {Path(0, "model", ".obj"), Path(0, "model", ".usda"), Path(0, "model", ".usdz")}

OutputPaths ==
    {Path(0, "out", ".usdz"), Path(0, "model", ".usdz"), Path(1, "model", ".usdz")}

\* Files that may be in the directory besides the input when the run begins.
OtherPaths ==
    {Path(0, "model", ".usdz"), Path(1, "model", ".usdz"), Path(0, "out", ".usdz")}

InitPipeline ==
    /\ material_variants = <<>>
    /\ animation_variants = <<>>
    /\ pc = "pipeline"
    /\ idx = 0
    /\ base_path = 0
    /\ stage = NoStage
    /\ start = 0
    /\ end = 0
    /\ resources = EmptyFn
    /\ temp_dir = EmptyFn
    /\ cleanup_dirs = <<>>
    /\ dirs = {}
    /\ made = {}
    /\ diag = {}
    /\ clones = <<>>
    /\ copies = <<>>
    /\ authored = <<>>
    /\ calls = <<>>
    /\ output = <<>>
    /\ maximize_timecode = FALSE
    /\ exc = ""
    /\ paths = <<>>
    /\ default_layer = NoLayer
    /\ usdz_path = <<>>
    /\ expanded = NotExpanded
    /\ args \in [input : InputPaths, output : OutputPaths,
                 condition : BOOLEAN, validate : BOOLEAN]
    /\ existed \in {{args.input} \cup others : others \in SUBSET OtherPaths}
    /\ files = existed
    /\ working_file = Path(0, "", "")
    /\ written = {}
    /\ unlinked = {}

\* What a pipeline step leaves alone.
Combiner == <<Inputs, Archive, Untouched, idx, base_path, start, end, output,
              maximize_timecode, exc>>

\* Step 1: convert if the input is not already USD/USDZ.  A conversion that
\* fails may or may not have written its file.
PipelineConvert ==
    /\ pc = "pipeline"
    /\ LET input_path == args.input
           temp_usdz == with_suffix(input_path, ".usdz")
       IN  IF input_path.suffix \notin usd_suffixes
           THEN \E result \in {0, 1}, wrote \in BOOLEAN :
                  IF result # 0
                  THEN /\ pc' = "return_1"
                       /\ files' = IF wrote THEN files \cup {temp_usdz} ELSE files
                       /\ written' = IF wrote THEN written \cup {temp_usdz} ELSE written
                       /\ working_file' = working_file
                  ELSE /\ pc' = "step_2"
                       /\ files' = files \cup {temp_usdz}
                       /\ written' = written \cup {temp_usdz}
                       /\ working_file' = temp_usdz
           ELSE /\ pc' = "step_2"
                /\ working_file' = input_path
                /\ UNCHANGED <<files, written>>
    /\ UNCHANGED <<Combiner, args, existed, unlinked>>

\* Step 2: condition.  The conditioner module may fail to load, and its
\* main may fail.
PipelineCondition ==
    /\ pc = "step_2"
    /\ IF args.condition
       THEN LET conditioned == conditioned_path(working_file) IN
            \E outcome \in {"done", "failed", "no_module"} :
              IF outcome = "done"
              THEN /\ pc' = "step_3"
                   /\ files' = files \cup {conditioned}
                   /\ written' = written \cup {conditioned}
                   /\ working_file' = conditioned
              ELSE /\ pc' = "return_1"
                   /\ UNCHANGED <<files, written, working_file>>
       ELSE /\ pc' = "step_3"
            /\ UNCHANGED <<files, written, working_file>>
    /\ UNCHANGED <<Combiner, args, existed, unlinked>>

\* Step 3: validate.  Whatever the checker returns or raises, the run goes on.
PipelineValidate ==
    /\ pc = "step_3"
    /\ pc' = "final"
    /\ UNCHANGED <<Combiner, Tool>>

\* working_file.unlink(), where the test before it holds.
unlink(fs, path, test) == IF test /\ path \in fs THEN fs \ {path} ELSE fs

\* Final output: the copy, then "Clean up temp files".
PipelineFinal ==
    /\ pc = "final"
    /\ pc' = "return_0"
    /\ LET input_path == args.input
           output_path == args.output
           temp_usdz == with_suffix(input_path, ".usdz")
           copied == files \cup {output_path}
           first == unlink(copied, working_file, working_file # input_path)
           second == unlink(first, temp_usdz,
                            temp_usdz # input_path /\ temp_usdz # output_path)
       IN  IF working_file # output_path
           THEN /\ files' = second
                /\ written' = written \cup {output_path}
                /\ unlinked' = unlinked \cup (copied \ second)
           ELSE UNCHANGED <<files, written, unlinked>>
    /\ UNCHANGED <<Combiner, args, existed, working_file>>

NextPipeline ==
    \/ PipelineConvert
    \/ PipelineCondition
    \/ PipelineValidate
    \/ PipelineFinal

SpecPipeline == InitPipeline /\ [][NextPipeline]_vars

----------------------------------------------------------------------------
(* Properties of the resource store (checked under SpecStore).              *)

\* The calls that returned a stored path.
Interned == {i \in 1..Len(calls) : calls[i].raised = ""}

\* C1: after any sequence of copy_resource calls, two files with equal digest
\* got the same stored path, no digest was copied twice, and the scratch area
\* holds exactly one file per digest interned, each under the returned path.
C1_OneCopyPerDigest ==
    /\ \A i, j \in Interned :
          Sha256(calls[i].src.content) = Sha256(calls[j].src.content)
              => calls[i].ret = calls[j].ret
    /\ \A a, b \in 1..Len(copies) :
          a # b => Sha256(copies[a].src.content) # Sha256(copies[b].src.content)
    /\ Cardinality(DOMAIN temp_dir) =
          Cardinality({Sha256(calls[i].src.content) : i \in Interned})
    /\ \A i \in Interned :
          /\ Basename(calls[i].ret) \in DOMAIN temp_dir
          /\ temp_dir[Basename(calls[i].ret)] = calls[i].src.content

\* C1, its case: two files of different names and equal bytes were interned,
\* the second without a copy.
C1_Witness ==
    \E i, j \in Interned :
        /\ i < j
        /\ calls[i].src.name # calls[j].src.name
        /\ calls[i].src.content = calls[j].src.content
        /\ Len(copies) = 1

\* name with _k before the extension (k = 0: the name itself)
Numbered(name, k) == IF k = 0 THEN name ELSE [name EXCEPT !.base = Suffixed(@, k)]

----------------------------------------------------------------------------
(* Properties of the cloner (checked under SpecClone).                      *)

\* Clones i < j of sources of one name under one parent, none between them.
NextCloneOf(i, j) ==
    /\ i < j
    /\ Last(clones[i].src) = Last(clones[j].src)
    /\ Parent(clones[i].dst) = Parent(clones[j].dst)
    /\ \A l \in (i + 1)..(j - 1) :
          ~(Last(clones[l].src) = Last(clones[i].src)
              /\ Parent(clones[l].dst) = Parent(clones[i].dst))

\* C6 as stated: two clones of sources named X under one parent, X free at
\* the first, are named X and X_1; no clone takes the name of a child that
\* its parent already has.
C6_XThenX1 ==
    /\ \A c \in 1..Len(clones) : Last(clones[c].dst) \notin clones[c].names
    /\ \A i, j \in 1..Len(clones) :
          NextCloneOf(i, j) /\ Last(clones[i].src) \notin clones[i].names
              => /\ Last(clones[i].dst) = Last(clones[i].src)
                 /\ Last(clones[j].dst) = Suffixed(Last(clones[i].src), 1)

\* The prims, relationships and assets of st are those of st2 as well.
Kept(st, st2) ==
    /\ Range(st.prims) \subseteq Range(st2.prims)
    /\ \A k \in Kinds : \A p \in DOMAIN st.rel[k] :
          p \in DOMAIN st2.rel[k] /\ st2.rel[k][p] = st.rel[k][p]
    /\ \A p \in DOMAIN st.asset : p \in DOMAIN st2.asset /\ st2.asset[p] = st.asset[p]

C6_Names ==
    /\ \A c \in 1..Len(clones) :
          /\ Last(clones[c].dst) \notin clones[c].names
          /\ Last(clones[c].src) \notin clones[c].names
                => Last(clones[c].dst) = Last(clones[c].src)
    /\ \A i, j \in 1..Len(clones) :
          NextCloneOf(i, j) /\ Last(clones[i].src) \notin clones[i].names
              => /\ clones[i].dst # clones[j].dst
                 /\ Last(clones[i].dst) = Last(clones[i].src)
                 /\ Suffixed(Last(clones[i].src), 1) \notin clones[j].names
                        => Last(clones[j].dst) = Suffixed(Last(clones[i].src), 1)

\* C6, amended: two clones of sources named X under one parent, X free at the
\* first, are two distinct children, the first named X and the second X_1
\* unless the parent already has a child X_1; a clone's path is never the
\* path of a prim the graph already has, and a clone step leaves every prim,
\* relationship and asset of the graph as it was.
C6_NeverOverwrites ==
    /\ []C6_Names
    /\ [][ /\ Len(clones') = Len(clones) + 1
           /\ Last(clones').dst \notin Range(stage.prims)
           /\ Last(clones').dst \in Range(stage'.prims)
           /\ Kept(stage, stage') ]_vars

\* C6, its case: two clones under one parent, named X and X_1.
C6_Witness ==
    \E i, j \in 1..Len(clones) :
        /\ NextCloneOf(i, j)
        /\ Last(clones[i].dst) = Last(clones[i].src)
        /\ Last(clones[j].dst) = Suffixed(Last(clones[i].src), 1)
        /\ {clones[i].dst, clones[j].dst} \subseteq Range(stage.prims)

----------------------------------------------------------------------------
(* Properties of the merge (checked under Spec).                            *)

InLoop == pc \in {"material_loop", "animation_loop"}

\* The running axis: its relationship, its mapping, its variant set.
Axis == IF pc = "material_loop" THEN MatKind ELSE AnimKind

Mapping == IF pc = "material_loop" THEN material_variants ELSE animation_variants

VSet == IF pc = "material_loop" THEN material_variantset_name ELSE animation_variantset_name

\* The edit-block of variant v of set s for relationship k (empty when the
\* set or the variant does not exist).
Block(st, s, v, k) ==
    IF s \in DOMAIN st.vsets /\ v \in DOMAIN st.vsets[s].edits
    THEN st.vsets[s].edits[v][k]
    ELSE EmptyFn

\* The loop has just processed a distinct variant document.
AfterVariant == InLoop /\ idx > 1 /\ Mapping[idx - 1].file # base_path

\* The loop is about to process a distinct variant document / the base.
AtVariant == InLoop /\ idx <= Len(Mapping) /\ Mapping[idx].file # base_path

AtBase == InLoop /\ idx <= Len(Mapping) /\ Mapping[idx].file = base_path

\* The targets document f authors for relationship k of prim n.
DocTargets(f, k, n) == Docs[f].rel[k][n].tg

\* C2 as stated: within one axis no target of a variant document is cloned
\* twice, and two references to one source target are resolved to one path.
C2_ClonedOnce ==
    /\ \A i, j \in 1..Len(clones) :
          i # j => ~(clones[i].file = clones[j].file /\ clones[i].src = clones[j].src)
    /\ AfterVariant =>
          \A x, y \in 1..Len(authored) :
             \A a \in 1..Len(authored[x].tg) : \A b \in 1..Len(authored[y].tg) :
                DocTargets(Mapping[idx - 1].file, Axis, authored[x].node)[a]
                  = DocTargets(Mapping[idx - 1].file, Axis, authored[y].node)[b]
                    => authored[x].tg[a] = authored[y].tg[b]

\* The scenario of C3: the material axis has run over [base, alt], two
\* documents of one hierarchy with different variant names, the base first.
C3_Scenario ==
    /\ pc = "animation"
    /\ Len(material_variants) = 2
    /\ material_variants[1].file = base_path
    /\ material_variants[1].name # material_variants[2].name
    /\ Range(Docs[material_variants[2].file].prims) = Range(Docs[base_path].prims)
    /\ \E n \in DOMAIN Docs[base_path].rel[MatKind] :
          Docs[base_path].rel[MatKind][n].tg # <<>>

\* C3: after the scenario no prim has unconditional material:binding targets,
\* the base's variant authors the base's own targets, and the other variant
\* authors, target by target, the paths of the clones of its targets.
C3_BaseAndAlt ==
    C3_Scenario =>
        LET alt == material_variants[2].file
            base_block == Block(stage, material_variantset_name,
                                material_variants[1].name, MatKind)
            alt_block == Block(stage, material_variantset_name,
                               material_variants[2].name, MatKind)
        IN  /\ \A n \in DOMAIN stage.rel[MatKind] : stage.rel[MatKind][n].tg = <<>>
            /\ \A n \in DOMAIN Docs[base_path].rel[MatKind] :
                  Docs[base_path].rel[MatKind][n].tg # <<>>
                     => /\ n \in DOMAIN base_block
                        /\ base_block[n].tg = Docs[base_path].rel[MatKind][n].tg
            /\ \A n \in DOMAIN Docs[alt].rel[MatKind] :
                  /\ n \in DOMAIN alt_block
                  /\ Len(alt_block[n].tg) = Len(DocTargets(alt, MatKind, n))
                  /\ \A i \in 1..Len(alt_block[n].tg) :
                        /\ alt_block[n].tg[i] \in Range(stage.prims)
                        /\ \E c \in 1..Len(clones) :
                              /\ clones[c].file = alt
                              /\ clones[c].src = DocTargets(alt, MatKind, n)[i]
                              /\ clones[c].dst = alt_block[n].tg[i]

\* C3, its case: the scenario, with an override of the other variant that
\* differs from the base's target.
C3_Witness ==
    /\ C3_Scenario
    /\ \E n \in DOMAIN Docs[base_path].rel[MatKind] :
          /\ Docs[base_path].rel[MatKind][n].tg # <<>>
          /\ n \in DOMAIN Block(stage, material_variantset_name,
                                material_variants[2].name, MatKind)
          /\ Block(stage, material_variantset_name, material_variants[2].name, MatKind)[n].tg
                # Docs[base_path].rel[MatKind][n].tg

\* C4: once an axis with a non-empty mapping has completed, its selected
\* variant is the variant of the first entry of its mapping.
C4_FirstIsSelected ==
    /\ pc \in {"animation", "animation_loop", "export", "returned", "exit_0"}
          /\ material_variants # <<>>
          => stage.vsets[material_variantset_name].sel = material_variants[1].name
    /\ pc \in {"export", "returned", "exit_0"} /\ animation_variants # <<>>
          => stage.vsets[animation_variantset_name].sel = animation_variants[1].name

\* C4, its case: an axis completed whose base document is the last entry, so
\* that another variant than the first was selected while edits were authored.
C4_Witness ==
    /\ pc = "animation"
    /\ Len(material_variants) = 2
    /\ material_variants[2].file = base_path
    /\ material_variants[1].name # material_variants[2].name
    /\ Block(stage, material_variantset_name, material_variants[2].name, MatKind) # EmptyFn
    /\ stage.vsets[material_variantset_name].sel = material_variants[1].name

\* C5 as stated: the iteration for the base document converts exactly the
\* prims whose relationship has an authored target in the root layer: the
\* target list leaves the root layer and the same list, with its metadata,
\* is in the entry's variant; every other prim keeps its relationship and
\* gets no edit.
C5_BaseConverted ==
    [][ AtBase /\ idx' = idx + 1 =>
          LET k == Axis
              before == Block(stage, VSet, Mapping[idx].name, k)
              after == Block(stage', VSet, Mapping[idx].name, k)
          IN  \A n \in Range(stage.prims) :
                 IF n \in DOMAIN stage.rel[k] /\ stage.rel[k][n].tg # <<>>
                 THEN /\ n \notin DOMAIN stage'.rel[k]
                      /\ n \in DOMAIN after
                      /\ after[n] = stage.rel[k][n]
                 ELSE /\ n \in DOMAIN stage.rel[k] <=> n \in DOMAIN stage'.rel[k]
                      /\ n \in DOMAIN stage.rel[k] => stage'.rel[k][n] = stage.rel[k][n]
                      /\ n \in DOMAIN before <=> n \in DOMAIN after
                      /\ n \in DOMAIN before => after[n] = before[n]
      ]_vars

\* C8 as stated: when main is left, no scratch directory is left on disk.
C8_AllScratchRemoved == pc \in {"exit_0", "exit_1", "exit_error"} => dirs = {}

\* The nodes of document f that carry relationship k.
Carrying(f, k) == DOMAIN Docs[f].rel[k]

\* The (node, position) pairs of document f whose node is in the combined
\* graph st and whose target is a node of f: the targets the loop clones.
Clonable(st, f, k) ==
    UNION { { <<n, i>> : i \in {j \in 1..Len(DocTargets(f, k, n)) :
                                   DocTargets(f, k, n)[j] \in Range(Docs[f].prims)} } :
            n \in {m \in Carrying(f, k) : HasPrim(st, m)} }

\* C9: in the iteration for a variant document, a carrying node with no node
\* at its path in the combined graph gets a diagnostic, no override and no
\* clone, every other carrying node gets its override, and the loop goes on
\* to the next entry; an iteration that raises has reported no mismatch and
\* authored nothing (its load raised), so no mismatch ever aborts the merge.
C9_MismatchSkipped ==
    [][ AtVariant =>
          LET f == Mapping[idx].file
              k == Axis
              before == Block(stage, VSet, Mapping[idx].name, k)
              after == Block(stage', VSet, Mapping[idx].name, k)
          IN  IF pc' = "raised"
              THEN /\ \A d \in diag' \ diag : d.what = "Could not read"
                   /\ authored' = <<>> /\ clones' = clones
              ELSE /\ pc' = pc /\ idx' = idx + 1
                   /\ \A n \in Carrying(f, k) :
                         IF HasPrim(stage, n)
                         THEN /\ \E e \in 1..Len(authored') : authored'[e].node = n
                              /\ n \in DOMAIN after
                         ELSE /\ [what |-> "hierarchy mismatch", at |-> n] \in diag'
                              /\ \A e \in 1..Len(authored') : authored'[e].node # n
                              /\ n \in DOMAIN after <=> n \in DOMAIN before
                              /\ n \in DOMAIN before => after[n] = before[n]
                   /\ Len(clones') - Len(clones) = Cardinality(Clonable(stage, f, k))
      ]_vars

\* C9, its case: a merge that skipped a node for a hierarchy mismatch, whose
\* targets would have been cloned, and has exported.
C9_Witness ==
    /\ pc = "returned"
    /\ output # <<>>
    /\ \E i \in 1..Len(material_variants) :
          LET f == material_variants[i].file IN
          /\ f # base_path
          /\ \E n \in Carrying(f, MatKind) :
                /\ ~HasPrim(stage, n)
                /\ [what |-> "hierarchy mismatch", at |-> n] \in diag
                /\ \E j \in 1..Len(DocTargets(f, MatKind, n)) :
                      DocTargets(f, MatKind, n)[j] \in Range(Docs[f].prims)
                /\ \E m \in Carrying(f, MatKind) :
                      m \in DOMAIN Block(stage, material_variantset_name,
                                         material_variants[i].name, MatKind)

\* C10: in the iteration for a variant document, every override has one
\* target per source target: a target that is no node of the document stays
\* the source path and is reported, every other target is the path of a
\* clone made in this iteration; the override is in the variant's edit-block
\* and the loop goes on to the next entry.
C10_DanglingSkipped ==
    [][ AtVariant /\ pc' # "raised" =>
          LET f == Mapping[idx].file
              k == Axis
              after == Block(stage', VSet, Mapping[idx].name, k)
          IN  /\ pc' = pc /\ idx' = idx + 1
              /\ \A e \in 1..Len(authored') :
                    LET n == authored'[e].node
                        src == DocTargets(f, k, n)
                        tg == authored'[e].tg
                    IN  /\ Len(tg) = Len(src)
                        /\ n \in DOMAIN after /\ after[n].tg = tg
                        /\ \A i \in 1..Len(src) :
                              IF src[i] \in Range(Docs[f].prims)
                              THEN /\ tg[i] \in Range(stage'.prims)
                                   /\ \E c \in (Len(clones) + 1)..Len(clones') :
                                         /\ clones'[c].src = src[i]
                                         /\ clones'[c].dst = tg[i]
                              ELSE /\ tg[i] = src[i]
                                   /\ [what |-> "missing target", at |-> src[i]] \in diag'
      ]_vars

\* C10, its case: an override authored with one target left unresolved and
\* another target resolved to its clone.
C10_Witness ==
    /\ AfterVariant
    /\ \E e \in 1..Len(authored) :
          LET f == Mapping[idx - 1].file
              n == authored[e].node
              src == DocTargets(f, Axis, n)
              tg == authored[e].tg
          IN  /\ \E i \in 1..Len(src) :
                    /\ src[i] \notin Range(Docs[f].prims)
                    /\ tg[i] = src[i]
                    /\ [what |-> "missing target", at |-> src[i]] \in diag
              /\ \E j \in 1..Len(src) :
                    /\ src[j] \in Range(Docs[f].prims)
                    /\ \E c \in 1..Len(clones) :
                          clones[c].src = src[j] /\ clones[c].dst = tg[j]
              /\ n \in DOMAIN Block(stage, VSet, Mapping[idx - 1].name, Axis)
              /\ Block(stage, VSet, Mapping[idx - 1].name, Axis)[n].tg = tg

----------------------------------------------------------------------------
(* Properties of the time range, the driver and the axes (under Spec).      *)

\* The least and the greatest number of a non-empty finite set.
Least(S) == CHOOSE x \in S : \A y \in S : x <= y

Greatest(S) == CHOOSE x \in S : \A y \in S : x >= y

\* The documents whose time range the animation axis reconciles: the base
\* document and every document of the animation mapping.
Ranged == {base_path} \cup Keys(animation_variants)

\* C11: once the animation axis has completed over a non-empty mapping, the
\* combined range is [least start, greatest end] of the base and the
\* mapping's documents under the widen policy and [greatest start, least
\* end] under the narrow policy; for base [0,10] with [5,20] and [-5,8] that
\* is [-5,20] and [5,8].
C11_TimeRange ==
    pc \in {"export", "returned", "exit_0"} /\ animation_variants # <<>> =>
        LET starts == {Docs[f].start : f \in Ranged}
            ends == {Docs[f].end : f \in Ranged}
        IN  /\ IF maximize_timecode
               THEN stage.start = Least(starts) /\ stage.end = Greatest(ends)
               ELSE stage.start = Greatest(starts) /\ stage.end = Least(ends)
            /\ starts = {0, 5, -5} /\ ends = {10, 20, 8} =>
                  IF maximize_timecode
                  THEN stage.start = -5 /\ stage.end = 20
                  ELSE stage.start = 5 /\ stage.end = 8

\* C11, its case: base [0,10] and the animation documents [5,20] and [-5,8],
\* reconciled under the widen policy.
C11_Witness ==
    /\ pc = "export"
    /\ Docs[base_path].start = 0 /\ Docs[base_path].end = 10
    /\ Len(animation_variants) = 2
    /\ {<<Docs[f].start, Docs[f].end>> : f \in Keys(animation_variants)}
          = {<<5, 20>>, <<-5, 8>>}
    /\ maximize_timecode
    /\ stage.start = -5 /\ stage.end = 20

\* C12: with both mappings empty main leaves with exit status 1 and never
\* gets past the test: no VariantCombiner is constructed, so no scratch
\* directory is made, no document is loaded and no graph exists or changes.
C12_EmptyRejected ==
    /\ material_variants = <<>> /\ animation_variants = <<>> =>
          /\ pc \in {"main", "exit_1"}
          /\ made = {} /\ dirs = {} /\ cleanup_dirs = <<>>
          /\ base_path = 0 /\ stage = NoStage
          /\ temp_dir = EmptyFn /\ calls = <<>> /\ output = <<>>
    /\ pc = "exit_1" => material_variants = <<>> /\ animation_variants = <<>>

\* C12, its case: main has left with status 1.
C12_Witness ==
    /\ pc = "exit_1"
    /\ material_variants = <<>> /\ animation_variants = <<>>
    /\ made = {} /\ stage = NoStage

\* C13: an axis given an empty mapping returns at once: the step leaves the
\* combined graph (prims, relationships, variant sets, time range) and every
\* other part of the engine as it was, and the graph never has a VariantSet
\* of that axis.
C13_EmptyAxisSkipped ==
    /\ [](material_variants = <<>> => material_variantset_name \notin DOMAIN stage.vsets)
    /\ [](animation_variants = <<>> => animation_variantset_name \notin DOMAIN stage.vsets)
    /\ [][ /\ pc = "material" /\ material_variants = <<>>
              => pc' = "animation" /\ stage' = stage /\ UNCHANGED Untouched
           /\ pc = "animation" /\ animation_variants = <<>>
              => pc' = "export" /\ stage' = stage /\ UNCHANGED Untouched ]_vars

\* C13, its case: the material axis has run, the animation axis was skipped
\* for its empty mapping, and the graph is about to be exported.
C13_Witness ==
    /\ pc = "export"
    /\ animation_variants = <<>>
    /\ material_variantset_name \in DOMAIN stage.vsets
    /\ animation_variantset_name \notin DOMAIN stage.vsets
    /\ stage.start = Docs[base_path].start /\ stage.end = Docs[base_path].end

\* The variant names of a mapping, in the order of its pairs.
Names(m) == [i \in 1..Len(m) |-> m[i].name]

\* C14 as stated: once an axis has run over a non-empty mapping, the graph
\* has the VariantSet named for the axis, and the variants of that set are
\* the variant names of the mapping's pairs, one per pair, in their order.
C14_OneVariantPerPair ==
    /\ pc \in {"animation", "animation_loop", "export", "returned", "exit_0"}
          /\ material_variants # <<>>
          => /\ material_variantset_name \in DOMAIN stage.vsets
             /\ stage.vsets[material_variantset_name].variants = Names(material_variants)
    /\ pc \in {"export", "returned", "exit_0"} /\ animation_variants # <<>>
          => /\ animation_variantset_name \in DOMAIN stage.vsets
             /\ stage.vsets[animation_variantset_name].variants = Names(animation_variants)

\* main has been left by an exception.
Aborted == pc \in {"raised", "exit_error"}

\* The step loads a document whose extension is not an allowed one.
LoadsDisallowed ==
    \/ pc = "constructed" /\ base_path' # 0 /\ Docs[base_path'].ext \notin allowed_exts
    \/ AtVariant /\ Docs[Mapping[idx].file].ext \notin allowed_exts

\* C15: main is left by an exception exactly when a load raised or the base
\* document has no default prim; the load of a document with a disallowed
\* extension always raises, also for a variant document met after others
\* were merged; and once main is left that way it stays so: the graph is not
\* touched again, nothing is exported to the scratch area and no output
\* container is ever written.
C15_WholeDocumentAborts ==
    /\ [](Aborted <=> exc # "")
    /\ [](Aborted => output = <<>> /\ temp_file_name \notin DOMAIN temp_dir)
    /\ [][ /\ LoadsDisallowed => pc' = "raised" /\ exc' = "ValueError"
           /\ Aborted => Aborted' /\ stage' = stage /\ output' = <<>> ]_vars

\* C15, its case: the second document of the material mapping could not be
\* opened after the first, a variant document, had been merged, and main
\* was left without an output.
C15_Witness ==
    /\ pc = "exit_error"
    /\ exc = "RuntimeError"
    /\ Len(material_variants) = 2 /\ idx = 2
    /\ material_variants[1].file # base_path
    /\ animation_variantset_name \notin DOMAIN stage.vsets
    /\ Block(stage, material_variantset_name, material_variants[1].name, MatKind) # EmptyFn
    /\ clones # <<>>
    /\ output = <<>>

\* The calls of copy_resource on a file that is not on disk.
Unreadable == {i \in 1..Len(calls) : ~calls[i].src.there}

\* C16 as stated: a copy_resource call on a file that is not on disk is
\* reported, copies nothing and records no digest, and neither the call nor
\* the load around it raises: main is not left by the file's exception.
C16_UnreadableSkipped ==
    \A i \in Unreadable :
        /\ [what |-> "Could not read", at |-> calls[i].src.name] \in diag
        /\ \A c \in 1..Len(copies) : copies[c].src # calls[i].src
        /\ NoneHash \notin DOMAIN resources
        /\ calls[i].raised = ""
        /\ exc # "FileNotFoundError"

\* The asset value names a file interned under that name with those bytes.
IsInterned(value) ==
    /\ value.dir = "."
    /\ \E c \in 1..Len(copies) :
          copies[c].name = value.name /\ copies[c].src.content = value.content

----------------------------------------------------------------------------
(* Properties of packing and unpacking (checked under SpecUsdz).            *)

\* The file of the directory itself that is named by default_layer.
Preferred == {f \in Range(paths) : f.sub = <<>> /\ NameOf(f) = default_layer}

\* C18 as stated: when directory_to_usdz is given a default layer that is a
\* file of the directory, the container holds every file of the directory
\* once and that file is its first entry.
C18_PreferredFirst ==
    pc \in {"container", "expanded"} /\ Preferred # {} =>
        /\ Range(usdz_path) = Range(paths) /\ Len(usdz_path) = Len(paths)
        /\ usdz_path[1] \in Preferred

\* C19 as stated: __enter__ extracts every entry, default_layer is the name
\* of the first entry, in container order, that is a single document (.usd,
\* .usda, .usdc), and default_layer_path is one of the extracted files.
C19_DefaultDocument ==
    pc = "expanded" =>
        LET docs == {i \in 1..Len(usdz_path) : usdz_path[i].ext \in {<<".usd">>, <<".usd", "c">>}}
        IN  /\ expanded.files = Range(usdz_path)
            /\ docs # {} =>
                  /\ expanded.default_layer = NameOf(usdz_path[Least(docs)])
                  /\ expanded.default_layer_path \in expanded.files

----------------------------------------------------------------------------
(* The order of main's steps (checked under Spec).                          *)

\* The position of main, in the order of its statements.
Rank ==
    [ x \in {"main", "constructed", "material", "material_loop", "animation",
             "animation_loop", "export", "returned", "exit_0", "raised",
             "exit_error", "exit_1"} |->
        CASE x = "main" -> 0
          [] x = "constructed" -> 1
          [] x = "material" -> 2
          [] x = "material_loop" -> 3
          [] x = "animation" -> 4
          [] x = "animation_loop" -> 5
          [] x = "export" -> 6
          [] x = "returned" -> 7
          [] OTHER -> 8 ]

\* The VariantSet of that name, when the graph has it.
VSetOf(st, name) == IF name \in DOMAIN st.vsets THEN {st.vsets[name]} ELSE {}

\* C20: main never steps back; the material VariantSet (its variants, its
\* selection, its edit-blocks) changes only while the material axis runs and
\* the animation VariantSet only while the animation axis runs, which starts
\* after the material axis has ended; the output is written once, by the
\* export step that follows the animation axis, and from then on the graph
\* does not change.
C20_AxesInOrder ==
    [][ /\ Rank[pc'] >= Rank[pc]
        /\ VSetOf(stage', material_variantset_name) # VSetOf(stage, material_variantset_name)
              => pc \in {"material", "material_loop"}
        /\ VSetOf(stage', animation_variantset_name) # VSetOf(stage, animation_variantset_name)
              => pc \in {"animation", "animation_loop"}
        /\ output' # output
              => pc = "export" /\ output = <<>> /\ Len(output') = 1 /\ stage' = stage
        /\ output # <<>> => output' = output /\ stage' = stage
      ]_vars

\* C20, its case: both axes have authored edits and the graph was exported.
C20_Witness ==
    /\ pc = "returned"
    /\ Len(output) = 1
    /\ material_variantset_name \in DOMAIN stage.vsets
    /\ animation_variantset_name \in DOMAIN stage.vsets
    /\ \E v \in DOMAIN stage.vsets[material_variantset_name].edits :
          stage.vsets[material_variantset_name].edits[v][MatKind] # EmptyFn
    /\ \E v \in DOMAIN stage.vsets[animation_variantset_name].edits :
          stage.vsets[animation_variantset_name].edits[v][AnimKind] # EmptyFn

----------------------------------------------------------------------------
(* Further properties of the cloner (checked under SpecClone).              *)

\* C21 as stated: a clone is named as its source when no child of the
\* destination parent has that name, and otherwise the source's name with
\* one suffix _n, n the least number from 1 that makes the name free.
C21_SingleSuffix ==
    \A c \in 1..Len(clones) :
        LET name == Last(clones[c].src)
            new_name == Last(clones[c].dst)
            names == clones[c].names
        IN  IF name \notin names THEN new_name = name
            ELSE \E n \in 1..(Cardinality(names) + 1) :
                    /\ new_name = Suffixed(name, n)
                    /\ new_name \notin names
                    /\ \A m \in 1..(n - 1) : Suffixed(name, m) \in names

----------------------------------------------------------------------------
(* Further properties of the axes (checked under Spec).                     *)

\* The material axis has completed over a non-empty mapping.
MaterialDone ==
    /\ pc \in {"animation", "animation_loop", "export", "returned", "exit_0"}
    /\ material_variants # <<>>

\* The animation axis has completed over a non-empty mapping.
AnimationDone == pc \in {"export", "returned", "exit_0"} /\ animation_variants # <<>>

\* The prims of st with unconditional targets for relationship k.
Unconditional(st, k) == {n \in DOMAIN st.rel[k] : st.rel[k][n].tg # <<>>}

\* C22 as stated: once an axis has completed over a non-empty mapping, no
\* prim of the combined graph has unconditional targets for the axis's
\* relationship, whichever document was drawn as the base.
C22_NoUnconditionalTargets ==
    /\ MaterialDone => Unconditional(stage, MatKind) = {}
    /\ AnimationDone => Unconditional(stage, AnimKind) = {}

\* The edit-block of the base document's variant in set s, relationship k, of
\* mapping m holds, prim by prim, what the base document authored.
BaseBlockIsBase(m, s, k) ==
    \A i \in 1..Len(m) :
        m[i].file = base_path /\ (\A j \in 1..Len(m) : j # i => m[j].name # m[i].name) =>
            \A n \in DOMAIN Block(stage, s, m[i].name, k) :
                /\ n \in DOMAIN Docs[base_path].rel[k]
                /\ Block(stage, s, m[i].name, k)[n].tg = Docs[base_path].rel[k][n].tg

\* C23 as stated: once an axis has completed, the edit-block of the base
\* document's variant holds at each prim exactly the targets the base
\* document authored there, wherever the base stands in the mapping.
C23_BaseVariantOwnTargets ==
    /\ MaterialDone => BaseBlockIsBase(material_variants, material_variantset_name, MatKind)
    /\ AnimationDone => BaseBlockIsBase(animation_variants, animation_variantset_name, AnimKind)

\* The prim is a clone made by the step, or below one.
InNewClone(p) ==
    \E c \in (Len(clones) + 1)..Len(clones') : IsPrefix(clones'[c].dst, p)

\* C24: the iteration for a variant document leaves every prim, every
\* unconditional relationship and every asset value of the combined graph as
\* it was, and every edit-block but the one of the document's variant; what
\* it adds outside the edit-block is inside the subtrees it cloned.
C24_OnlyOwnBlock ==
    [][ AtVariant =>
          /\ Kept(stage, stage')
          /\ \A p \in Range(stage'.prims) \ Range(stage.prims) : InNewClone(p)
          /\ \A k \in Kinds : \A p \in DOMAIN stage'.rel[k] \ DOMAIN stage.rel[k] :
                InNewClone(p)
          /\ \A s \in DOMAIN stage.vsets : \A v \in DOMAIN stage.vsets[s].edits :
                s # VSet \/ v # Mapping[idx].name
                   => /\ s \in DOMAIN stage'.vsets
                      /\ v \in DOMAIN stage'.vsets[s].edits
                      /\ stage'.vsets[s].edits[v] = stage.vsets[s].edits[v]
      ]_vars

\* C24, its case: a variant document was merged, with an override and a
\* clone, into a graph that has unconditional targets and another variant
\* with edits of its own.
C24_Witness ==
    /\ AfterVariant
    /\ authored # <<>> /\ clones # <<>>
    /\ Unconditional(stage, Axis) # {}
    /\ \E v \in DOMAIN stage.vsets[VSet].edits :
          /\ v # Mapping[idx - 1].name
          /\ stage.vsets[VSet].edits[v][Axis] # EmptyFn
    /\ Block(stage, VSet, Mapping[idx - 1].name, Axis) # EmptyFn

\* Clone c of the running axis was taken from prim src of document f and
\* put at dst.
IsClone(c, f, src, dst) ==
    clones[c].file = f /\ clones[c].src = src /\ clones[c].dst = dst

\* C25: each override of the document just merged has one target per target
\* of the document's list at that prim, in the same order: a target that is
\* a prim of the document became the path of a clone of that prim, later
\* positions taking later clones, and a dangling target is the source path;
\* the edit-block holds that list.
C25_SameLengthAndOrder ==
    AfterVariant =>
        \A e \in 1..Len(authored) :
            LET f == Mapping[idx - 1].file
                n == authored[e].node
                src == DocTargets(f, Axis, n)
                tg == authored[e].tg
                found == {i \in 1..Len(src) : src[i] \in Range(Docs[f].prims)}
            IN  /\ Len(tg) = Len(src)
                /\ \A i \in (1..Len(src)) \ found : tg[i] = src[i]
                /\ \A i \in found :
                      /\ \E c \in 1..Len(clones) : IsClone(c, f, src[i], tg[i])
                      /\ Last(tg[i]).b = Last(src[i]).b
                /\ \A i, j \in found :
                      i < j => \E c, d \in 1..Len(clones) :
                                  /\ c < d
                                  /\ IsClone(c, f, src[i], tg[i])
                                  /\ IsClone(d, f, src[j], tg[j])
                /\ Block(stage, VSet, Mapping[idx - 1].name, Axis)[n].tg = tg

\* C25, its case: an override of three targets, the second dangling, the
\* first and the third resolved to clones.
C25_Witness ==
    /\ AfterVariant
    /\ \E e \in 1..Len(authored) :
          LET f == Mapping[idx - 1].file
              src == DocTargets(f, Axis, authored[e].node)
              tg == authored[e].tg
          IN  /\ Len(src) = 3 /\ Len(tg) = 3
              /\ src[2] \notin Range(Docs[f].prims) /\ tg[2] = src[2]
              /\ \E c, d \in 1..Len(clones) :
                    c < d /\ IsClone(c, f, src[1], tg[1]) /\ IsClone(d, f, src[3], tg[3])

\* C26: every resolved target of the document just merged is the path of a
\* clone taken from that document, and never the path of a clone taken from
\* another document of the axis, also where both documents name the same
\* source path; clones of different documents are different prims.
C26_ClonesOfOwnDocument ==
    /\ \A c, d \in 1..Len(clones) :
          clones[c].file # clones[d].file => clones[c].dst # clones[d].dst
    /\ AfterVariant =>
          \A e \in 1..Len(authored) :
              LET f == Mapping[idx - 1].file
                  src == DocTargets(f, Axis, authored[e].node)
                  tg == authored[e].tg
              IN  \A i \in 1..Len(src) :
                     src[i] \in Range(Docs[f].prims) =>
                        /\ \E c \in 1..Len(clones) : IsClone(c, f, src[i], tg[i])
                        /\ \A c \in 1..Len(clones) :
                              clones[c].file # f => clones[c].dst # tg[i]

\* C26, its case: two documents of one axis name the same source path; the
\* second was just merged and its override points at its own clone, not at
\* the clone taken from the first.
C26_Witness ==
    /\ AfterVariant
    /\ \E c, d \in 1..Len(clones) :
          /\ c < d
          /\ clones[c].file # clones[d].file
          /\ clones[d].file = Mapping[idx - 1].file
          /\ clones[c].src = clones[d].src
          /\ clones[c].dst # clones[d].dst
          /\ \E e \in 1..Len(authored) : \E i \in 1..Len(authored[e].tg) :
                authored[e].tg[i] = clones[d].dst

\* The combined graph st has the prim but no relationship k on it, or has the
\* relationship without targets.
Unbound(st, k, p) ==
    HasPrim(st, p) /\ (~RelValid(st, k, p) \/ GetTargets(st, k, p) = <<>>)

\* C27: in the iteration for a variant document, a carrying node whose prim
\* is in the combined graph without the relationship, or with the
\* relationship and no targets, gets its override in the document's
\* edit-block, one target per target of the document, and no hierarchy
\* mismatch is reported for it.
C27_OverrideWithoutRelationship ==
    [][ AtVariant /\ pc' = pc =>
          LET f == Mapping[idx].file
              after == Block(stage', VSet, Mapping[idx].name, Axis)
          IN  \A n \in Carrying(f, Axis) :
                 Unbound(stage, Axis, n) =>
                    /\ n \in DOMAIN after
                    /\ Len(after[n].tg) = Len(DocTargets(f, Axis, n))
                    /\ \E e \in 1..Len(authored') :
                          authored'[e].node = n /\ authored'[e].tg = after[n].tg
                    /\ [what |-> "hierarchy mismatch", at |-> n] \notin diag'
      ]_vars

\* C27, its case: the first entry of an axis was a variant document and was
\* just merged; it carries a node on which the graph has no relationship of
\* the axis, in the root layer or in any variant, and the document's
\* edit-block holds the override with its targets.
C27_Witness ==
    /\ AfterVariant /\ idx = 2
    /\ \E n \in Carrying(Mapping[1].file, Axis) :
          /\ HasPrim(stage, n)
          /\ n \notin DOMAIN stage.rel[Axis]
          /\ n \notin DOMAIN Docs[base_path].rel[Axis]
          /\ n \in DOMAIN Block(stage, VSet, Mapping[1].name, Axis)
          /\ Block(stage, VSet, Mapping[1].name, Axis)[n].tg # <<>>
          /\ [what |-> "hierarchy mismatch", at |-> n] \notin diag

\* C29 as stated: every document of the corpus has start <= end, and once the
\* animation axis has completed over a non-empty mapping the combined graph's
\* start is at most its end, under either time-code policy.
C29_RangeOrdered ==
    /\ \A f \in Files : Docs[f].start <= Docs[f].end
    /\ AnimationDone => stage.start <= stage.end

----------------------------------------------------------------------------
(* The two axes as calls on the object, every file sound: the methods       *)
(* setup_material_variants and setup_animation_variants applied whole, in   *)
(* the order of main and in the opposite order.                             *)

\* The object after __init__.
VariantCombiner ==
    LET w == [ stage |-> NoStage, resources |-> EmptyFn, temp_dir |-> EmptyFn,
               cleanup_dirs |-> <<>>, dirs |-> {}, made |-> {}, diag |-> {},
               clones |-> <<>>, copies |-> <<>>, authored |-> <<>>, calls |-> <<>> ]
    IN  [w EXCEPT !.dirs = {mkdtemp(w)}, !.made = {mkdtemp(w)},
                  !.cleanup_dirs = <<mkdtemp(w)>>]

\* load_base(base_file)
load_base(w, base_file) ==
    LET r == load(w, base_file, "ok") IN
    IF r.raised # "" THEN r ELSE Result([r.w EXCEPT !.stage = r.ret], 0, "")

\* for file_path, variant_name in variants.items(): ...   (either axis)
RECURSIVE entries(_, _, _, _, _, _)
entries(w, b, k, vset, variants, i) ==
    IF i > Len(variants) THEN Result(w, 0, "")
    ELSE LET file_path == variants[i].file
             variant_name == variants[i].name
             w1 == [w EXCEPT !.stage = AddVariant(@, vset, variant_name),
                             !.authored = <<>>]
         IN  IF file_path = b
             THEN entries(IF k = MatKind
                          THEN base_material_loop(w1, vset, variant_name, 1)
                          ELSE base_animation_loop(w1, vset, variant_name, 1),
                          b, k, vset, variants, i + 1)
             ELSE LET r == load(w1, file_path, "ok") IN
                  IF r.raised # "" THEN Result(r.w, 0, r.raised)
                  ELSE entries(variant_loop(r.w, r.ret, file_path, k, vset, variant_name, 1),
                               b, k, vset, variants, i + 1)

\* setup_material_variants(material_variants) on the object w with base b.
setup_material_variants(w, b, variants) ==
    IF variants = <<>> THEN Result(w, 0, "")
    ELSE LET r == entries([w EXCEPT !.stage = AddVariantSet(@, material_variantset_name),
                                    !.clones = <<>>, !.authored = <<>>],
                          b, MatKind, material_variantset_name, variants, 1)
         IN  IF r.raised # "" THEN r
             ELSE Result([r.w EXCEPT !.stage = SetVariantSelection(
                                         @, material_variantset_name,
                                         first_variant(variants))], 0, "")

\* start, end after the entries from i on: min/max over the variant documents.
RECURSIVE time_codes(_, _, _, _, _)
time_codes(range, b, variants, maximize, i) ==
    IF i > Len(variants) THEN range
    ELSE IF variants[i].file = b \/ Docs[variants[i].file].ext \notin allowed_exts
    THEN time_codes(range, b, variants, maximize, i + 1)
    ELSE LET var_stage == DocStage(variants[i].file) IN
         time_codes([start |-> IF maximize THEN Min(range.start, var_stage.start)
                               ELSE Max(range.start, var_stage.start),
                     end |-> IF maximize THEN Max(range.end, var_stage.end)
                             ELSE Min(range.end, var_stage.end)],
                    b, variants, maximize, i + 1)

\* setup_animation_variants(animation_variants, maximize_timecode)
setup_animation_variants(w, b, variants, maximize) ==
    IF variants = <<>> THEN Result(w, 0, "")
    ELSE LET range == time_codes([start |-> w.stage.start, end |-> w.stage.end],
                                 b, variants, maximize, 1)
             r == entries([w EXCEPT !.stage = AddVariantSet(@, animation_variantset_name),
                                    !.clones = <<>>, !.authored = <<>>],
                          b, AnimKind, animation_variantset_name, variants, 1)
         IN  IF r.raised # "" THEN r
             ELSE Result([r.w EXCEPT !.stage =
                             [SetVariantSelection(@, animation_variantset_name,
                                                  first_variant(variants))
                                 EXCEPT !.start = range.start, !.end = range.end]], 0, "")

\* main, lines 517-523, with the base file drawn; material_first is the
\* order of main, its negation the opposite order of the two calls.
combine(material_first, b) ==
    LET c == load_base(VariantCombiner, b)
        m(w) == setup_material_variants(w, b, material_variants)
        a(w) == setup_animation_variants(w, b, animation_variants, maximize_timecode)
        then(r, F(_)) == IF r.raised # "" THEN r ELSE F(r.w)
    IN  IF material_first THEN then(then(c, m), a) ELSE then(then(c, a), m)

\* The two calls in the order of main leave what the steps of the run leave.
AxesAsRun ==
    pc = "export" =>
        /\ combine(TRUE, base_path).raised = ""
        /\ combine(TRUE, base_path).w.stage = stage
        /\ combine(TRUE, base_path).w.temp_dir = temp_dir
        /\ combine(TRUE, base_path).w.resources = resources

\* C28 as stated: when both axes have run, the combined graph has the prims
\* (so the clone paths), the variant sets, the edit-blocks and the selections
\* that the two calls leave when made in the opposite order on the same
\* inputs and the same base.
C28_AxisOrderIrrelevant ==
    pc = "export" =>
        LET opposite == combine(FALSE, base_path) IN
        /\ opposite.raised = ""
        /\ Range(opposite.w.stage.prims) = Range(stage.prims)
        /\ opposite.w.stage.vsets = stage.vsets

----------------------------------------------------------------------------
(* Properties of the pipeline of usd_tool.py (checked under SpecPipeline).  *)

\* C30 as stated: every file the pipeline run unlinked is a file the run
\* wrote, was not on disk when the run began, and is neither the input nor
\* the output.
C30_DeletesOnlyOwnIntermediates ==
    \A path \in unlinked :
        /\ path \in written
        /\ path \notin existed
        /\ path # args.input
        /\ path # args.output

====
